---- MODULE Spec2Model ----
(***************************************************************************)
(* A model of the graph analytics of SAPIENZA-ADM-HW5:                     *)
(*   - airline_partitioning (Ford-Fulkerson max flow, min cut)             *)
(*   - dijkstra_all_paths, find_best_route's dijkstra                      *)
(*   - edge_betweenness_centrality, girvan_newman                          *)
(*   - compute_pagerank                                                    *)
(* Airports and nodes are numbered: 1 = "A"/"X", 2 = "B"/"Y", 3 = "C"/"Z", *)
(* 4 = "D".  A Python dict is a sequence of <<key, value>> pairs in        *)
(* insertion order, which is the order Python iterates it in.              *)
(***************************************************************************)
EXTENDS Integers, Sequences, FiniteSets, TLC

VARIABLES
    \* airline_partitioning
    graph,            \* dict origin -> dict destination -> distance
    source, sink,     \* the arguments of ford_fulkerson
    residual_graph,   \* ford_fulkerson's working copy
    max_flow,
    parent,           \* the parent map the last bfs left
    path_flow,        \* the bottleneck of the last augmentation
    removed_edges,    \* find_min_cut's result
    fpc,              \* where airline_partitioning is
    \* dijkstra_all_paths
    digraph,          \* the weighted DiGraph: <<u, v>> -> weight
    dsource,          \* the source argument
    distances,        \* node -> distance, Inf until reached
    paths,            \* node -> list of paths
    priority_queue,   \* the heap, a set of <<distance, node>>
    extending,        \* <<node, i>> while paths[node].extend(...) reads paths[node][i]
    dpc,              \* where dijkstra_all_paths is
    \* find_best_route
    routes,           \* graph: the flights <<origin, destination, distance>>
    start, target,    \* the arguments of the inner dijkstra
    pq,               \* the heap, a set of <<distance, node, path>>
    rvisited,         \* dijkstra's visited set
    shortest_path,    \* what dijkstra returned, <<>> for None
    route_found,      \* whether Best_route is a route, not 'No route found'
    rpc,              \* where find_best_route is
    \* edge_betweenness_centrality, girvan_newman
    ugraph,           \* the undirected Graph: [nodes, adj], both in insertion order
    ebc_scores,       \* the dict edge_betweenness_centrality returned last
    sg,               \* girvan_newman's list of components
    gn_removed,       \* the edges girvan_newman has removed, in order
    gpc,              \* where the call on the undirected Graph is
    \* propagate_labels
    labels,           \* the dict node -> label
    changed,          \* the flag of the while loop
    lpos,             \* the place of the for loop in graph.nodes(), 0 outside it
    \* compute_pagerank
    pgraph,           \* the weighted digraph: edge <<u, v>> -> weight
    max_iterations,   \* the cap the caller passed
    iteration,        \* the iterations completed
    pagerank,         \* the scores of the previous iteration
    new_pagerank,     \* the scores being computed, and the result
    ppc               \* where compute_pagerank is

flowVars == <<graph, source, sink, residual_graph, max_flow, parent, path_flow,
              removed_edges, fpc>>

dijkVars == <<digraph, dsource, distances, paths, priority_queue, extending, dpc>>

routeVars == <<routes, start, target, pq, rvisited, shortest_path, route_found, rpc>>

gnVars == <<ugraph, ebc_scores, sg, gn_removed, gpc>>

prVars == <<pgraph, max_iterations, iteration, pagerank, new_pagerank, ppc>>

lpVars == <<labels, changed, lpos>>

vars == <<flowVars, dijkVars, routeVars, gnVars, prVars, lpVars>>

\* what the operations of one family leave alone
notFlow == <<dijkVars, routeVars, gnVars, prVars, lpVars>>
notDijk == <<flowVars, routeVars, gnVars, prVars, lpVars>>
notRoute == <<flowVars, dijkVars, gnVars, prVars, lpVars>>
notGN == <<flowVars, dijkVars, routeVars, prVars, lpVars>>
notPR == <<flowVars, dijkVars, routeVars, gnVars, lpVars>>
notLP == <<flowVars, dijkVars, routeVars, prVars, ebc_scores, sg, gn_removed>>

\* ------------------------------------------------------------------ bounds
NumAirports == 3      \* airports of the enumerated flight tables
MaxCap == 2           \* distances (capacities) of the enumerated flight tables
MaxEdges == 3         \* edges of a built graph (the worked example apart)

NumNodes == 4         \* nodes of the enumerated DiGraphs
MaxWeight == 1        \* edge weights of the enumerated DiGraphs
MaxDiEdges == 4       \* edges of an enumerated DiGraph
MaxPathLen == 4       \* nodes of a path while a list is extended from itself

NumGNodes == 4        \* nodes of the enumerated undirected Graphs
MaxGEdges == 4        \* edges of an enumerated undirected Graph

NumPNodes == 3        \* nodes of the enumerated PageRank graphs
MaxPWeight == 2       \* greatest edge weight of a PageRank graph
MaxPEdges == 4        \* edges of an enumerated PageRank graph
MaxIter == 2          \* greatest max_iterations passed to compute_pagerank

\* float('Inf'): above every capacity and every distance of the model
Inf == 1000000

\* nothing is built and nothing has been called
Init ==
    /\ graph = <<>>
    /\ source = 0 /\ sink = 0
    /\ residual_graph = <<>>
    /\ max_flow = 0
    /\ parent = <<>>
    /\ path_flow = Inf
    /\ removed_edges = <<>>
    /\ fpc = "build"
    /\ digraph = <<>>
    /\ dsource = 0
    /\ distances = <<>>
    /\ paths = <<>>
    /\ priority_queue = {}
    /\ extending = <<0, 0>>
    /\ dpc = "build"
    /\ routes = {}
    /\ start = 0 /\ target = 0
    /\ pq = {}
    /\ rvisited = {}
    /\ shortest_path = <<>>
    /\ route_found = FALSE
    /\ rpc = "build"
    /\ ugraph = [nodes |-> <<>>, adj |-> <<>>]
    /\ ebc_scores = <<>>
    /\ sg = <<>>
    /\ gn_removed = <<>>
    /\ gpc = "build"
    /\ labels = <<>>
    /\ changed = FALSE
    /\ lpos = 0
    /\ pgraph = <<>>
    /\ max_iterations = 0
    /\ iteration = 0
    /\ pagerank = <<>>
    /\ new_pagerank = <<>>
    /\ ppc = "build"

Range(s) == {s[i] : i \in 1..Len(s)}

\* ------------------------------------------------------------ Python dict
KeySet(d) == {d[i][1] : i \in 1..Len(d)}

Keys(d) == [i \in 1..Len(d) |-> d[i][1]]

Has(d, k) == k \in KeySet(d)

Index(d, k) == CHOOSE i \in 1..Len(d) : d[i][1] = k

\* d.get(k, default)
Get(d, k, default) == IF Has(d, k) THEN d[Index(d, k)][2] ELSE default

\* d[k] = v: an existing key keeps its place, a new key goes last
Put(d, k, v) ==
    IF Has(d, k) THEN [d EXCEPT ![Index(d, k)] = <<k, v>>] ELSE Append(d, <<k, v>>)

\* ----------------------------------------------------- airline_partitioning
Airports == 1..NumAirports

\* the rows of the worked example: A->B 3, A->C 2, B->D 2, C->D 3
ExampleRows == {<<1, 2, 3>>, <<1, 3, 2>>, <<2, 4, 2>>, <<3, 4, 3>>}

\* a table of four airports with a two-leg and a three-leg route from 1 to 4:
\* A->B 1, A->C 1, B->C 1, C->D 1, D->A 0
DetourRows == {<<1, 2, 1>>, <<1, 3, 1>>, <<2, 3, 1>>, <<3, 4, 1>>, <<4, 1, 0>>}

\* the rows a flight table is made of
FlightRows ==
    {r \in Airports \X Airports \X (0..MaxCap) : r[1] # r[2]}
        \cup ExampleRows \cup DetourRows

AllAirports == {r[1] : r \in FlightRows} \cup {r[2] : r \in FlightRows}

\* the rows (origin, destination, distance) a graph holds
RowsOf(g) == {<<g[i][1], g[i][2][j][1], g[i][2][j][2]>> :
                 <<i, j>> \in {p \in (1..Len(g)) \X (1..4) : p[2] <= Len(g[p[1]][2])}}

NumEdges(g) == LET n[i \in 0..Len(g)] == IF i = 0 THEN 0 ELSE n[i - 1] + Len(g[i][2])
               IN n[Len(g)]

\* one iteration of the loop that builds the graph
AddRowTo(g, row) ==
    LET origin == row[1]
        destination == row[2]
        distance == row[3]
        g1 == IF Has(g, origin) THEN g ELSE Put(g, origin, <<>>)
    IN Put(g1, origin, Put(Get(g1, origin, <<>>), destination, distance))

\* residual_graph = {u: neighbors.copy() for u, neighbors in graph.items()}
CopyGraph(g) == g

\* bfs's inner loop over residual_graph.get(current, {}).items(), from item i on:
\* [found, queue, parent]
RECURSIVE BfsScan(_, _, _, _, _, _, _)
BfsScan(items, i, current, visited, queue, par, snk) ==
    IF i > Len(items) THEN [found |-> FALSE, queue |-> queue, parent |-> par]
    ELSE LET neighbor == items[i][1]
             capacity == items[i][2]
         IN IF neighbor \notin visited /\ capacity > 0
            THEN LET par1 == Put(par, neighbor, current)
                 IN IF neighbor = snk
                    THEN [found |-> TRUE, queue |-> queue, parent |-> par1]
                    ELSE BfsScan(items, i + 1, current, visited,
                                 Append(queue, neighbor), par1, snk)
            ELSE BfsScan(items, i + 1, current, visited, queue, par, snk)

\* bfs's while loop: [found, parent]
RECURSIVE BfsLoop(_, _, _, _, _)
BfsLoop(res, queue, visited, par, snk) ==
    IF queue = <<>> THEN [found |-> FALSE, parent |-> par]
    ELSE LET current == Head(queue)
             visited1 == visited \cup {current}
             r == BfsScan(Get(res, current, <<>>), 1, current, visited1,
                          Tail(queue), par, snk)
         IN IF r.found THEN [found |-> TRUE, parent |-> r.parent]
            ELSE BfsLoop(res, r.queue, visited1, r.parent, snk)

bfs(res, src, snk) == BfsLoop(res, <<src>>, {}, <<>>, snk)

Min(a, b) == IF a < b THEN a ELSE b

\* the nodes of the path the parent map gives, from s back to src
RECURSIVE PathBack(_, _, _)
PathBack(par, s, src) ==
    IF s = src THEN <<s>> ELSE <<s>> \o PathBack(par, Get(par, s, 0), src)

\* path_flow: the minimum residual capacity along the path
RECURSIVE Bottleneck(_, _, _, _, _)
Bottleneck(res, par, s, src, pf) ==
    IF s = src THEN pf
    ELSE LET p == Get(par, s, 0)
         IN Bottleneck(res, par, p, src, Min(pf, Get(Get(res, p, <<>>), s, 0)))

\* the loop that updates the residual capacities, from v back to the source:
\* [res, error]; residual_graph[v][u] = ... is a KeyError when v is no key
RECURSIVE UpdateResidual(_, _, _, _, _)
UpdateResidual(res, par, v, src, pf) ==
    IF v = src THEN [res |-> res, error |-> "none"]
    ELSE LET u == Get(par, v, 0)
             res1 == Put(res, u, Put(Get(res, u, <<>>), v, Get(Get(res, u, <<>>), v, 0) - pf))
             back == Get(Get(res1, v, <<>>), u, 0) + pf
         IN IF ~Has(res1, v) THEN [res |-> res1, error |-> "KeyError"]
            ELSE UpdateResidual(Put(res1, v, Put(Get(res1, v, <<>>), u, back)),
                                par, u, src, pf)

\* a dfs that follows saturated edges too
RECURSIVE dfsAnyCapacity(_, _, _)
RECURSIVE DfsScanAnyCapacity(_, _, _, _)
DfsScanAnyCapacity(res, items, i, visited) ==
    IF i > Len(items) THEN visited
    ELSE IF items[i][1] \notin visited
         THEN DfsScanAnyCapacity(res, items, i + 1, dfsAnyCapacity(res, items[i][1], visited))
         ELSE DfsScanAnyCapacity(res, items, i + 1, visited)

dfsAnyCapacity(res, node, visited) ==
    DfsScanAnyCapacity(res, Get(res, node, <<>>), 1, visited \cup {node})

\* find_min_cut's dfs: the visited set after dfs(node)
RECURSIVE dfs(_, _, _)
RECURSIVE DfsScan(_, _, _, _)
DfsScan(res, items, i, visited) ==
    IF i > Len(items) THEN visited
    ELSE LET neighbor == items[i][1]
             capacity == items[i][2]
         IN IF neighbor \notin visited /\ capacity > 0
            THEN DfsScan(res, items, i + 1, dfs(res, neighbor, visited))
            ELSE DfsScan(res, items, i + 1, visited)

dfs(res, node, visited) ==
    DfsScan(res, Get(res, node, <<>>), 1, visited \cup {node})

\* the edges (u, v) of g, in the order the nested loops meet them
RECURSIVE EdgeList(_, _, _)
EdgeList(g, i, j) ==
    IF i > Len(g) THEN <<>>
    ELSE IF j > Len(g[i][2]) THEN EdgeList(g, i + 1, 1)
    ELSE <<<<g[i][1], g[i][2][j][1]>>>> \o EdgeList(g, i, j + 1)

\* a find_min_cut that skips the edges of capacity 0
find_min_cut_skip_zero(g, src, res) ==
    LET visited == dfs(res, src, {})
        Crosses(e) == /\ Get(Get(g, e[1], <<>>), e[2], 0) > 0
                      /\ e[1] \in visited /\ e[2] \notin visited
    IN SelectSeq(EdgeList(g, 1, 1), Crosses)

find_min_cut(g, src, res) ==
    LET visited == dfs(res, src, {})
        Crosses(e) == e[1] \in visited /\ e[2] \notin visited
    IN SelectSeq(EdgeList(g, 1, 1), Crosses)

\* ------------------------------------------------------ dijkstra_all_paths
Nodes == 1..NumNodes

\* adjacency_list[u]: the successors of u, in node order
AdjacencyList(g, u) ==
    LET Succ(k) == <<u, k>> \in DOMAIN g
    IN SelectSeq([k \in 1..NumNodes |-> k], Succ)

\* the tuple order of heap entries <<distance, node>>
TupleLess(a, b) == a[1] < b[1] \/ (a[1] = b[1] /\ a[2] < b[2])

\* what heappop returns: the least entry
HeapMin(h) == CHOOSE a \in h : \A b \in h : a = b \/ TupleLess(a, b)

\* [path + [neighbor] for path in plist]
ExtendAll(plist, neighbor) == [i \in 1..Len(plist) |-> Append(plist[i], neighbor)]

\* a relaxation that appends to the old list when the distance improves
RelaxEdgeKeepOld(g, neighbor, current_node, current_dist, st) ==
    LET new_dist == current_dist + g[<<current_node, neighbor>>]
    IN IF new_dist < st.distances[neighbor]
       THEN [st EXCEPT !.distances[neighbor] = new_dist,
                       !.paths[neighbor] =
                           st.paths[neighbor] \o ExtendAll(st.paths[current_node], neighbor),
                       !.pq = st.pq \cup {<<new_dist, neighbor>>}]
       ELSE IF new_dist = st.distances[neighbor]
       THEN IF neighbor = current_node
            THEN [st EXCEPT !.hang = neighbor]
            ELSE [st EXCEPT !.paths[neighbor] =
                     st.paths[neighbor] \o ExtendAll(st.paths[current_node], neighbor)]
       ELSE st

\* the body of the for loop over adjacency_list[current_node], for one
\* neighbor.  st = [distances, paths, pq, hang]: hang is the node whose list
\* is being extended from itself (neighbor = current_node in the tie branch:
\* the generator reads the list that extend is appending to), 0 when none.
RelaxEdge(g, neighbor, current_node, current_dist, st) ==
    LET edge_weight == g[<<current_node, neighbor>>]
        new_dist == current_dist + edge_weight
    IN IF new_dist < st.distances[neighbor]
       THEN [st EXCEPT !.distances[neighbor] = new_dist,
                       !.paths[neighbor] = ExtendAll(st.paths[current_node], neighbor),
                       !.pq = st.pq \cup {<<new_dist, neighbor>>}]
       ELSE IF new_dist = st.distances[neighbor]
       THEN IF neighbor = current_node
            THEN [st EXCEPT !.hang = neighbor]
            ELSE [st EXCEPT !.paths[neighbor] =
                     st.paths[neighbor] \o ExtendAll(st.paths[current_node], neighbor)]
       ELSE st

\* the for loop over adjacency_list[current_node], from neighbor i on; it
\* never gets past an extend that does not end
RECURSIVE Relax(_, _, _, _, _, _)
Relax(g, nbrs, i, current_node, current_dist, st) ==
    IF i > Len(nbrs) \/ st.hang # 0 THEN st
    ELSE Relax(g, nbrs, i + 1, current_node, current_dist,
               RelaxEdge(g, nbrs[i], current_node, current_dist, st))

\* the caller's graph.add_edge(u, v, weight=w)
AddDiEdge ==
    /\ dpc = "build"
    /\ \E u \in Nodes, v \in Nodes, w \in 0..MaxWeight :
          /\ digraph' = [e \in DOMAIN digraph \cup {<<u, v>>} |->
                            IF e = <<u, v>> THEN w ELSE digraph[e]]
          /\ Cardinality(DOMAIN digraph') <= MaxDiEdges
    /\ UNCHANGED <<dsource, distances, paths, priority_queue, extending, dpc>>
    /\ UNCHANGED notDijk

\* dijkstra_all_paths(source, graph, adjacency_list) up to its while loop
CallDijkstraAllPaths ==
    /\ dpc = "build"
    /\ \E s \in Nodes :
          /\ dsource' = s
          /\ distances' = [n \in Nodes |-> IF n = s THEN 0 ELSE Inf]
          /\ paths' = [n \in Nodes |-> IF n = s THEN <<<<s>>>> ELSE <<>>]
          /\ priority_queue' = {<<0, s>>}
    /\ dpc' = "loop"
    /\ UNCHANGED <<digraph, extending>>
    /\ UNCHANGED notDijk

\* one iteration of the while loop whose popped entry is stale
PopStale ==
    /\ dpc = "loop" /\ priority_queue # {}
    /\ LET top == HeapMin(priority_queue)
       IN /\ top[1] > distances[top[2]]
          /\ priority_queue' = priority_queue \ {top}
    /\ UNCHANGED <<digraph, dsource, distances, paths, extending, dpc>>
    /\ UNCHANGED notDijk

\* one iteration of the while loop that relaxes the popped node's edges
PopRelax ==
    /\ dpc = "loop" /\ priority_queue # {}
    /\ LET top == HeapMin(priority_queue)
           st == Relax(digraph, AdjacencyList(digraph, top[2]), 1, top[2], top[1],
                       [distances |-> distances, paths |-> paths,
                        pq |-> priority_queue \ {top}, hang |-> 0])
       IN /\ ~(top[1] > distances[top[2]])
          /\ distances' = st.distances
          /\ paths' = st.paths
          /\ priority_queue' = st.pq
          /\ IF st.hang = 0
             THEN dpc' = "loop" /\ extending' = extending
             ELSE dpc' = "extend" /\ extending' = <<st.hang, 1>>
    /\ UNCHANGED <<digraph, dsource>>
    /\ UNCHANGED notDijk

\* paths[n].extend(path + [n] for path in paths[n]): the generator yields
\* the next path of the list, extend appends it, and the list is one longer
ExtendStep ==
    /\ dpc = "extend"
    /\ LET n == extending[1]
           i == extending[2]
       IN /\ i <= Len(paths[n])
          /\ Len(paths[n][i]) < MaxPathLen
          /\ paths' = [paths EXCEPT ![n] = Append(paths[n], Append(paths[n][i], n))]
          /\ extending' = <<n, i + 1>>
    /\ UNCHANGED <<digraph, dsource, distances, priority_queue, dpc>>
    /\ UNCHANGED notDijk

\* the queue is empty: return paths, distances
ReturnPaths ==
    /\ dpc = "loop" /\ priority_queue = {}
    /\ dpc' = "returned"
    /\ UNCHANGED <<digraph, dsource, distances, paths, priority_queue, extending>>
    /\ UNCHANGED notDijk

DijkNext ==
    AddDiEdge \/ CallDijkstraAllPaths \/ PopStale \/ PopRelax \/ ExtendStep \/ ReturnPaths

\* ------------------------------------------------------ networkx.Graph
\* A Graph is [nodes, adj]: nodes lists the nodes and adj is a dict node ->
\* list of neighbours, each in insertion order (a self-loop lists the node once).
GNodes == 1..NumGNodes

\* graph.neighbors(n)
Neighbors(g, n) == Get(g.adj, n, <<>>)

AddNodeTo(g, n) ==
    IF n \in Range(g.nodes) THEN g
    ELSE [nodes |-> Append(g.nodes, n), adj |-> Put(g.adj, n, <<>>)]

AddNeighbor(g, u, v) ==
    IF v \in Range(Neighbors(g, u)) THEN g
    ELSE [g EXCEPT !.adj = Put(g.adj, u, Append(Neighbors(g, u), v))]

\* graph.add_edge(u, v)
AddEdgeTo(g, u, v) == AddNeighbor(AddNeighbor(AddNodeTo(AddNodeTo(g, u), v), u, v), v, u)

Without(seq, x) == SelectSeq(seq, LAMBDA y : y # x)

\* graph.remove_edge(u, v)
RemoveEdgeFrom(g, u, v) ==
    LET a1 == Put(g.adj, u, Without(Neighbors(g, u), v))
    IN [g EXCEPT !.adj = Put(a1, v, Without(Get(a1, v, <<>>), u))]

SortedPair(a, b) == IF a <= b THEN <<a, b>> ELSE <<b, a>>

\* [tuple(sorted(edge)) for edge in graph.edges]: each edge once, reported at
\* its endpoint that comes first in graph.nodes
RECURSIVE GraphEdges(_, _, _)
GraphEdges(g, i, j) ==
    IF i > Len(g.nodes) THEN <<>>
    ELSE LET n == g.nodes[i]
             nbrs == Neighbors(g, n)
         IN IF j > Len(nbrs) THEN GraphEdges(g, i + 1, 1)
            ELSE IF nbrs[j] \in {g.nodes[k] : k \in 1..(i - 1)}
                 THEN GraphEdges(g, i, j + 1)
                 ELSE <<SortedPair(n, nbrs[j])>> \o GraphEdges(g, i, j + 1)

\* ------------------------------------------------------------- fractions
\* A score is a fraction <<numerator, denominator>> in lowest terms.
RECURSIVE GCD(_, _)
GCD(a, b) == IF b = 0 THEN a ELSE GCD(b, a % b)

Abs(x) == IF x < 0 THEN -x ELSE x

Frac(n, d) == LET k == GCD(Abs(n), d) IN <<n \div k, d \div k>>

FAdd(a, b) ==
    LET l == (a[2] \div GCD(a[2], b[2])) * b[2]
    IN Frac(a[1] * (l \div a[2]) + b[1] * (l \div b[2]), l)

FMul(a, b) == Frac(a[1] * b[1], a[2] * b[2])

FLess(a, b) == a[1] * b[2] < b[1] * a[2]

\* ------------------------------------------- edge_betweenness_centrality
\* the for loop over graph.neighbors(current), from neighbor i on;
\* st = [distance, sigma, predecessors, queue, stack]
RECURSIVE EbcVisit(_, _, _, _)
EbcVisit(nbrs, i, current, st) ==
    IF i > Len(nbrs) THEN st
    ELSE LET neighbor == nbrs[i]
             st1 == IF st.distance[neighbor] = Inf
                    THEN [st EXCEPT !.distance[neighbor] = st.distance[current] + 1,
                                    !.queue = Append(st.queue, neighbor)]
                    ELSE st
             st2 == IF st1.distance[neighbor] = st1.distance[current] + 1
                    THEN [st1 EXCEPT !.sigma[neighbor] = st1.sigma[neighbor] + st1.sigma[current],
                                     !.predecessors[neighbor] =
                                         Append(st1.predecessors[neighbor], current)]
                    ELSE st1
         IN EbcVisit(nbrs, i + 1, current, st2)

\* the breadth-first search: while queue
RECURSIVE EbcSearch(_, _)
EbcSearch(g, st) ==
    IF st.queue = <<>> THEN st
    ELSE LET current == Head(st.queue)
         IN EbcSearch(g, EbcVisit(Neighbors(g, current), 1, current,
                                  [st EXCEPT !.queue = Tail(st.queue),
                                             !.stack = Append(st.stack, current)]))

\* contribution = (sigma[pred] / sigma[node]) * (1 + delta[node])
Contribution(sigma_pred, sigma_node, delta_node) ==
    FMul(Frac(sigma_pred, sigma_node), FAdd(<<1, 1>>, delta_node))

\* the for loop over predecessors[node], from predecessor i on; acc = [scores, delta]
RECURSIVE EbcCredit(_, _, _, _, _)
EbcCredit(preds, i, node, sigma, acc) ==
    IF i > Len(preds) THEN acc
    ELSE LET pred == preds[i]
             contribution == Contribution(sigma[pred], sigma[node], acc.delta[node])
             edge == SortedPair(node, pred)
         IN EbcCredit(preds, i + 1, node, sigma,
                [scores |-> [acc.scores EXCEPT ![edge] = FAdd(acc.scores[edge], contribution)],
                 delta |-> [acc.delta EXCEPT ![pred] = FAdd(acc.delta[pred], contribution)]])

\* the accumulation: while stack
RECURSIVE EbcUnwind(_, _, _, _)
EbcUnwind(stack, predecessors, sigma, acc) ==
    IF stack = <<>> THEN acc
    ELSE LET node == stack[Len(stack)]
         IN EbcUnwind(SubSeq(stack, 1, Len(stack) - 1), predecessors, sigma,
                      EbcCredit(predecessors[node], 1, node, sigma, acc))

\* the body of the loop over the sources: the scores after one source
EbcFromSource(g, src, scores) ==
    LET ns == Range(g.nodes)
        st == EbcSearch(g, [distance |-> [n \in ns |-> IF n = src THEN 0 ELSE Inf],
                            sigma |-> [n \in ns |-> IF n = src THEN 1 ELSE 0],
                            predecessors |-> [n \in ns |-> <<>>],
                            queue |-> <<src>>,
                            stack |-> <<>>])
    IN EbcUnwind(st.stack, st.predecessors, st.sigma,
                 [scores |-> scores, delta |-> [n \in ns |-> <<0, 1>>]]).scores

RECURSIVE EbcSources(_, _, _)
EbcSources(g, i, scores) ==
    IF i > Len(g.nodes) THEN scores
    ELSE EbcSources(g, i + 1, EbcFromSource(g, g.nodes[i], scores))

\* a final pass that forgets to halve the scores
HalveNot(x) == x

\* ebc_scores[edge] /= 2.0
Halve(x) == FMul(x, <<1, 2>>)

\* edge_betweenness_centrality(graph): the dict's values by key; its keys are
\* in the order of GraphEdges
edge_betweenness_centrality(g) ==
    LET keys == Range(GraphEdges(g, 1, 1))
        total == EbcSources(g, 1, [e \in keys |-> <<0, 1>>])
    IN [e \in keys |-> Halve(total[e])]

\* the first key of the least value
FirstMin(keys, val) ==
    keys[CHOOSE i \in 1..Len(keys) :
            /\ \A j \in 1..Len(keys) : ~FLess(val[keys[j]], val[keys[i]])
            /\ \A j \in 1..(i - 1) : FLess(val[keys[i]], val[keys[j]])]

\* max(N_dict, key=N_dict.get): the first key of the greatest value
FirstMax(keys, val) ==
    keys[CHOOSE i \in 1..Len(keys) :
            /\ \A j \in 1..Len(keys) : ~FLess(val[keys[i]], val[keys[j]])
            /\ \A j \in 1..(i - 1) : FLess(val[keys[j]], val[keys[i]])]

\* ------------------------------------------------- connected_components
\* a depth-first search that does not follow the neighbours
CcDfsShallow(g, node, vc) ==
    [visited |-> vc.visited \cup {node}, component |-> vc.component \cup {node}]

RECURSIVE CcDfs(_, _, _)
RECURSIVE CcScan(_, _, _, _)
\* dfs's for loop, from neighbor i on; vc = [visited, component]
CcScan(g, nbrs, i, vc) ==
    IF i > Len(nbrs) THEN vc
    ELSE IF nbrs[i] \notin vc.visited
         THEN CcScan(g, nbrs, i + 1, CcDfs(g, nbrs[i], vc))
         ELSE CcScan(g, nbrs, i + 1, vc)

CcDfs(g, node, vc) ==
    CcScan(g, Neighbors(g, node), 1,
           [visited |-> vc.visited \cup {node}, component |-> vc.component \cup {node}])

\* the loop over graph.nodes(), from node i on
RECURSIVE CcLoop(_, _, _, _)
CcLoop(g, i, seen, components) ==
    IF i > Len(g.nodes) THEN components
    ELSE IF g.nodes[i] \notin seen
         THEN LET vc == CcDfs(g, g.nodes[i], [visited |-> seen, component |-> {}])
              IN CcLoop(g, i + 1, vc.visited, Append(components, vc.component))
         ELSE CcLoop(g, i + 1, seen, components)

connected_components(g) == CcLoop(g, 1, {}, <<>>)

\* --------------------------------------------------------- girvan_newman
NumGEdges(g) == Len(GraphEdges(g, 1, 1))

\* the caller's graph.add_edge(u, v)
AddEdge ==
    /\ gpc = "build"
    /\ \E u \in GNodes : \E v \in GNodes \ {u} :
          /\ ugraph' = AddEdgeTo(ugraph, u, v)
          /\ ugraph' # ugraph
          /\ NumGEdges(ugraph') <= MaxGEdges
    /\ UNCHANGED <<ebc_scores, sg, gn_removed, gpc>>
    /\ UNCHANGED notGN

\* the caller's graph.add_node(n)
AddNode ==
    /\ gpc = "build"
    /\ \E n \in GNodes :
          /\ n \notin Range(ugraph.nodes)
          /\ ugraph' = AddNodeTo(ugraph, n)
    /\ UNCHANGED <<ebc_scores, sg, gn_removed, gpc>>
    /\ UNCHANGED notGN

\* a call of edge_betweenness_centrality(graph)
CallEdgeBetweenness ==
    /\ gpc = "build"
    /\ ebc_scores' = edge_betweenness_centrality(ugraph)
    /\ gpc' = "ebc"
    /\ UNCHANGED <<ugraph, sg, gn_removed>>
    /\ UNCHANGED notGN

\* girvan_newman(graph) up to its while loop
CallGirvanNewman ==
    /\ gpc = "build"
    /\ sg' = connected_components(ugraph)
    /\ gpc' = "loop"
    /\ UNCHANGED <<ugraph, ebc_scores, gn_removed>>
    /\ UNCHANGED notGN

\* one iteration of "while sg_count == 1"
RemoveEdge ==
    /\ gpc = "loop" /\ Len(sg) = 1
    /\ GraphEdges(ugraph, 1, 1) # <<>>
    /\ LET N_dict == edge_betweenness_centrality(ugraph)
           edge == FirstMax(GraphEdges(ugraph, 1, 1), N_dict)
       IN /\ ebc_scores' = N_dict
          /\ ugraph' = RemoveEdgeFrom(ugraph, edge[1], edge[2])
          /\ sg' = connected_components(RemoveEdgeFrom(ugraph, edge[1], edge[2]))
          /\ gn_removed' = Append(gn_removed, edge)
    /\ UNCHANGED gpc
    /\ UNCHANGED notGN

\* one component and no edge left: max() of an empty dict raises ValueError
RemoveEdgeFails ==
    /\ gpc = "loop" /\ Len(sg) = 1
    /\ GraphEdges(ugraph, 1, 1) = <<>>
    /\ ebc_scores' = edge_betweenness_centrality(ugraph)
    /\ gpc' = "ValueError"
    /\ UNCHANGED <<ugraph, sg, gn_removed>>
    /\ UNCHANGED notGN

\* sg_count != 1: return sg
ReturnComponents ==
    /\ gpc = "loop" /\ Len(sg) # 1
    /\ gpc' = "returned"
    /\ UNCHANGED <<ugraph, ebc_scores, sg, gn_removed>>
    /\ UNCHANGED notGN

GNNext ==
    \/ AddEdge \/ AddNode \/ CallEdgeBetweenness \/ CallGirvanNewman
    \/ RemoveEdge \/ RemoveEdgeFails \/ ReturnComponents

SpecGN == Init /\ [][GNNext]_vars

\* the guard of RemoveEdge: the states where it is enabled
RemoveEdgeEnabled ==
    gpc = "loop" /\ Len(sg) = 1 /\ GraphEdges(ugraph, 1, 1) # <<>>

\* a call of girvan_newman that has begun goes on, the loop being sequential
\* code: weak fairness of its three steps. For RemoveEdge the fairness is
\* written with the guard in place of ENABLED; a step that leaves a state of
\* RemoveEdgeEnabled is a RemoveEdge step.
SpecGNRuns ==
    Init /\ [][GNNext]_vars
         /\ WF_vars(RemoveEdgeFails) /\ WF_vars(ReturnComponents)
         /\ ([]<>(~RemoveEdgeEnabled) \/ []<><<RemoveEdgeEnabled>>_vars)

\* ------------------------------------------------------ propagate_labels
\* initialize_labels(graph)
initialize_labels(g) == [n \in Range(g.nodes) |-> n]

\* neighbor_labels.count(l)
Count(nl, l) == Cardinality({i \in 1..Len(nl) : nl[i] = l})

\* max(set(neighbor_labels), key=neighbor_labels.count): the first label of
\* the set, which holds small integers in increasing order, with the
\* greatest count
MostFrequent(nl) ==
    CHOOSE l \in Range(nl) :
        /\ \A k \in Range(nl) : Count(nl, k) <= Count(nl, l)
        /\ \A k \in Range(nl) : Count(nl, k) = Count(nl, l) => l <= k

\* [labels[neighbor] for neighbor in graph.neighbors(node)]
NeighborLabels(g, lb, node) ==
    [j \in 1..Len(Neighbors(g, node)) |-> lb[Neighbors(g, node)[j]]]

\* a test that always reports a change
AlwaysDiffers(a, b) == TRUE

\* labels[node] != most_frequent_label
Differs(a, b) == a # b

\* propagate_labels(graph, initialize_labels(graph)) up to its while loop
CallPropagateLabels ==
    /\ gpc = "build"
    /\ labels' = initialize_labels(ugraph)
    /\ changed' = TRUE
    /\ lpos' = 0
    /\ gpc' = "sweep"
    /\ UNCHANGED ugraph
    /\ UNCHANGED notLP

\* "while changed" is entered: changed = False, the for loop begins
BeginSweep ==
    /\ gpc = "sweep" /\ lpos = 0 /\ changed
    /\ changed' = FALSE
    /\ lpos' = IF ugraph.nodes = <<>> THEN 0 ELSE 1
    /\ UNCHANGED <<ugraph, labels, gpc>>
    /\ UNCHANGED notLP

\* one iteration of "for node in graph.nodes()"
VisitNode ==
    /\ gpc = "sweep" /\ lpos \in 1..Len(ugraph.nodes)
    /\ LET node == ugraph.nodes[lpos]
           neighbor_labels == NeighborLabels(ugraph, labels, node)
       IN IF neighbor_labels # <<>> /\ Differs(labels[node], MostFrequent(neighbor_labels))
          THEN /\ labels' = [labels EXCEPT ![node] = MostFrequent(neighbor_labels)]
               /\ changed' = TRUE
          ELSE UNCHANGED <<labels, changed>>
    /\ lpos' = IF lpos = Len(ugraph.nodes) THEN 0 ELSE lpos + 1
    /\ UNCHANGED <<ugraph, gpc>>
    /\ UNCHANGED notLP

\* changed is False: return labels
ReturnLabels ==
    /\ gpc = "sweep" /\ lpos = 0 /\ ~changed
    /\ gpc' = "labelled"
    /\ UNCHANGED <<ugraph, labels, changed, lpos>>
    /\ UNCHANGED notLP

LPNext ==
    \/ AddEdge \/ AddNode \/ CallPropagateLabels
    \/ BeginSweep \/ VisitNode \/ ReturnLabels

\* a call that has begun goes on: the loop is sequential code
SpecLP ==
    Init /\ [][LPNext]_vars
         /\ WF_vars(BeginSweep) /\ WF_vars(VisitNode) /\ WF_vars(ReturnLabels)

\* ------------------------------------------------------ compute_pagerank
\* nodes = list(adjacency_list.keys()); every node of the graph is a key
PNodes == 1..NumPNodes

\* adjacency_list[source]: the successors of source in the graph
Successors(g, src) == {n \in PNodes : <<src, n>> \in DOMAIN g}

\* damping_factor=0.85 and tolerance=1e-6, as fractions
damping_factor == <<17, 20>>

ToleranceInverse == 1000000

\* the sum of the fractions f[x], x in S
RECURSIVE FSum(_, _)
FSum(S, f) ==
    IF S = {} THEN <<0, 1>>
    ELSE LET x == CHOOSE y \in S : TRUE IN FAdd(f[x], FSum(S \ {x}, f))

RECURSIVE Sum(_, _)
Sum(S, f) ==
    IF S = {} THEN 0
    ELSE LET x == CHOOSE y \in S : TRUE IN f[x] + Sum(S \ {x}, f)

\* graph.edges[u, v]['weight']
EdgeWeight(g, u, v) == g[<<u, v>>]

\* total_outgoing_weight of source
TotalOutgoingWeight(g, src) ==
    Sum(Successors(g, src), [n \in Successors(g, src) |-> EdgeWeight(g, src, n)])

\* the sources that contribute to node
InNeighbors(g, node) == {src \in PNodes : node \in Successors(g, src)}

\* weight / total_outgoing_weight raises ZeroDivisionError for some source
DividesByZero(g) ==
    \E src \in PNodes : Successors(g, src) # {} /\ TotalOutgoingWeight(g, src) = 0

\* an update that reads the scores already written in this iteration
ScoresReadInPlace(old, new) == new

\* the scores the update reads: pagerank, those of the previous iteration
ScoresRead(old, new) == old

\* incoming_sum for node
IncomingSum(g, node, scores) ==
    FSum(InNeighbors(g, node),
         [src \in InNeighbors(g, node) |->
             FMul(scores[src], Frac(EdgeWeight(g, src, node), TotalOutgoingWeight(g, src)))])

\* the loop "for node in nodes", from node i on
RECURSIVE UpdateScores(_, _, _, _)
UpdateScores(g, i, old, new) ==
    IF i > NumPNodes THEN new
    ELSE UpdateScores(g, i + 1, old,
            [new EXCEPT ![i] =
                FAdd(FMul(FAdd(<<1, 1>>, <<-damping_factor[1], damping_factor[2]>>),
                          <<1, NumPNodes>>),
                     FMul(damping_factor, IncomingSum(g, i, ScoresRead(old, new))))])

\* abs(new_pagerank[node] - pagerank[node]) < tolerance
BelowTolerance(a, b) ==
    LET d == FAdd(a, <<-b[1], b[2]>>)
        n == Abs(d[1])
    IN IF n = 0 THEN TRUE
       ELSE IF d[2] \div n = ToleranceInverse THEN d[2] % n > 0
       ELSE d[2] \div n > ToleranceInverse

Converged(old, new) == \A n \in PNodes : BelowTolerance(new[n], old[n])

\* the caller's graph.add_edge(u, v, weight=w)
AddPEdge ==
    /\ ppc = "build"
    /\ \E u \in PNodes : \E v \in PNodes : \E w \in 0..MaxPWeight :
          /\ pgraph' = [e \in DOMAIN pgraph \cup {<<u, v>>} |->
                           IF e = <<u, v>> THEN w ELSE pgraph[e]]
          /\ Cardinality(DOMAIN pgraph') <= MaxPEdges
    /\ UNCHANGED <<max_iterations, iteration, pagerank, new_pagerank, ppc>>
    /\ UNCHANGED notPR

\* compute_pagerank(graph, adjacency_list, max_iterations=m) up to its loop
CallPagerank ==
    /\ ppc = "build"
    /\ \E m \in 0..MaxIter : max_iterations' = m
    /\ iteration' = 0
    /\ pagerank' = [n \in PNodes |-> <<1, NumPNodes>>]
    /\ new_pagerank' = [n \in PNodes |-> <<1, NumPNodes>>]
    /\ ppc' = "loop"
    /\ UNCHANGED pgraph
    /\ UNCHANGED notPR

\* one iteration that does not converge: pagerank = new_pagerank.copy()
Iterate ==
    /\ ppc = "loop" /\ iteration < max_iterations
    /\ ~DividesByZero(pgraph)
    /\ LET new == UpdateScores(pgraph, 1, pagerank, new_pagerank)
       IN /\ ~Converged(pagerank, new)
          /\ new_pagerank' = new
          /\ pagerank' = new
    /\ iteration' = iteration + 1
    /\ UNCHANGED <<pgraph, max_iterations, ppc>>
    /\ UNCHANGED notPR

\* one iteration that converges: break, return new_pagerank
IterateConverged ==
    /\ ppc = "loop" /\ iteration < max_iterations
    /\ ~DividesByZero(pgraph)
    /\ LET new == UpdateScores(pgraph, 1, pagerank, new_pagerank)
       IN /\ Converged(pagerank, new)
          /\ new_pagerank' = new
    /\ ppc' = "returned"
    /\ UNCHANGED <<pgraph, max_iterations, iteration, pagerank>>
    /\ UNCHANGED notPR

\* an iteration that divides by a zero total_outgoing_weight: the call ends
\* with ZeroDivisionError and returns nothing
IterateFails ==
    /\ ppc = "loop" /\ iteration < max_iterations
    /\ DividesByZero(pgraph)
    /\ ppc' = "ZeroDivisionError"
    /\ UNCHANGED <<pgraph, max_iterations, iteration, pagerank, new_pagerank>>
    /\ UNCHANGED notPR

\* range(max_iterations) is exhausted: return new_pagerank
ReturnPagerank ==
    /\ ppc = "loop" /\ iteration = max_iterations
    /\ ppc' = "returned"
    /\ UNCHANGED <<pgraph, max_iterations, iteration, pagerank, new_pagerank>>
    /\ UNCHANGED notPR

PRNext ==
    \/ AddPEdge \/ CallPagerank \/ Iterate \/ IterateConverged
    \/ IterateFails \/ ReturnPagerank

SpecPagerank == Init /\ [][PRNext]_vars

\* --------------------------------------------------------- find_best_route
\* Python's order of two lists
RECURSIVE ListLess(_, _)
ListLess(a, b) ==
    IF a = <<>> THEN b # <<>>
    ELSE IF b = <<>> THEN FALSE
    ELSE IF Head(a) = Head(b) THEN ListLess(Tail(a), Tail(b))
    ELSE Head(a) < Head(b)

\* an entry order that compares the node before the distance
EntryLessNodeFirst(a, b) ==
    \/ a[2] < b[2]
    \/ a[2] = b[2] /\ a[1] < b[1]
    \/ a[2] = b[2] /\ a[1] = b[1] /\ ListLess(a[3], b[3])

\* the tuple order of heap entries (distance, current_node, path_taken)
EntryLess(a, b) ==
    \/ a[1] < b[1]
    \/ a[1] = b[1] /\ a[2] < b[2]
    \/ a[1] = b[1] /\ a[2] = b[2] /\ ListLess(a[3], b[3])

\* what heapq.heappop returns: the least entry
HeapPop(h) == CHOOSE a \in h : \A b \in h : a = b \/ EntryLess(a, b)

\* the entries pushed for the flights out of current_node
Pushed(g, seen, current_distance, current_node, path) ==
    {<<current_distance + r[3], r[2], Append(path, current_node)>> :
        r \in {x \in g : x[1] = current_node /\ x[2] \notin seen}}

\* graph[origin].append((destination, distance)) for one row of the date
AddFlight ==
    /\ rpc = "build"
    /\ \E row \in FlightRows :
          /\ row \notin routes
          /\ Cardinality(routes) < MaxEdges
          /\ routes' = routes \cup {row}
    /\ UNCHANGED <<start, target, pq, rvisited, shortest_path, route_found, rpc>>
    /\ UNCHANGED notRoute

\* dijkstra(start, target) up to its while loop
CallDijkstra ==
    /\ rpc = "build"
    /\ \E a \in AllAirports, b \in AllAirports :
          /\ start' = a /\ target' = b
          /\ pq' = {<<0, a, <<>>>>}
    /\ rvisited' = {}
    /\ rpc' = "loop"
    /\ UNCHANGED <<routes, shortest_path, route_found>>
    /\ UNCHANGED notRoute

\* one iteration of the while loop that pops the target: return the path
PopTarget ==
    /\ rpc = "loop" /\ pq # {}
    /\ LET top == HeapPop(pq)
       IN /\ top[2] = target
          /\ pq' = pq \ {top}
          /\ shortest_path' = Append(top[3], top[2])
          /\ route_found' = (Append(top[3], top[2]) # <<>>)
    /\ rpc' = "path"
    /\ UNCHANGED <<routes, start, target, rvisited>>
    /\ UNCHANGED notRoute

\* one iteration of the while loop that pops another node
PopNode ==
    /\ rpc = "loop" /\ pq # {}
    /\ LET top == HeapPop(pq)
       IN /\ top[2] # target
          /\ IF top[2] \notin rvisited
             THEN /\ rvisited' = rvisited \cup {top[2]}
                  /\ pq' = (pq \ {top}) \cup
                            Pushed(routes, rvisited \cup {top[2]}, top[1], top[2], top[3])
             ELSE /\ rvisited' = rvisited
                  /\ pq' = pq \ {top}
    /\ UNCHANGED <<routes, start, target, shortest_path, route_found, rpc>>
    /\ UNCHANGED notRoute

\* the heap is empty: return None, rendered 'No route found'
ReturnNone ==
    /\ rpc = "loop" /\ pq = {}
    /\ shortest_path' = <<>>
    /\ route_found' = FALSE
    /\ rpc' = "None"
    /\ UNCHANGED <<routes, start, target, pq, rvisited>>
    /\ UNCHANGED notRoute

RouteNext == AddFlight \/ CallDijkstra \/ PopTarget \/ PopNode \/ ReturnNone

SpecRoute == Init /\ [][RouteNext]_vars

\* ---------------------------------------------------------------- actions
\* for _, row in flights_df.iterrows(): one row of the table
AddRow ==
    /\ fpc = "build"
    /\ \E row \in FlightRows :
          /\ graph' = AddRowTo(graph, row)
          /\ \/ NumEdges(graph') <= MaxEdges
             \/ RowsOf(graph') \subseteq ExampleRows
             \/ RowsOf(graph') \subseteq DetourRows
    /\ UNCHANGED <<source, sink, residual_graph, max_flow, parent, path_flow,
                   removed_edges, fpc>>
    /\ UNCHANGED notFlow

\* ford_fulkerson(graph, source, sink) is entered
CallFordFulkerson ==
    /\ fpc = "build"
    /\ graph # <<>>
    /\ \E s \in AllAirports, t \in AllAirports :
          /\ s # t
          /\ source' = s /\ sink' = t
    /\ residual_graph' = CopyGraph(graph)
    /\ max_flow' = 0
    /\ parent' = <<>>
    /\ fpc' = "augment"
    /\ UNCHANGED <<graph, path_flow, removed_edges>>
    /\ UNCHANGED notFlow

\* one iteration of "while bfs(source, sink)": the path's bottleneck is pushed
Augment ==
    /\ fpc = "augment"
    /\ LET b == bfs(residual_graph, source, sink)
       IN /\ b.found
          /\ parent' = b.parent
          /\ LET pf == Bottleneck(residual_graph, b.parent, sink, source, Inf)
                 u == UpdateResidual(residual_graph, b.parent, sink, source, pf)
             IN /\ path_flow' = pf
                /\ residual_graph' = u.res
                /\ IF u.error = "none"
                   THEN max_flow' = max_flow + pf /\ fpc' = "augment"
                   ELSE max_flow' = max_flow /\ fpc' = u.error
    /\ UNCHANGED <<graph, source, sink, removed_edges>>
    /\ UNCHANGED notFlow

\* bfs finds no path: ford_fulkerson returns max_flow, residual_graph
ReturnFlow ==
    /\ fpc = "augment"
    /\ LET b == bfs(residual_graph, source, sink)
       IN /\ ~b.found
          /\ parent' = b.parent
    /\ fpc' = "returned"
    /\ UNCHANGED <<graph, source, sink, residual_graph, max_flow, path_flow,
                   removed_edges>>
    /\ UNCHANGED notFlow

\* removed_edges = find_min_cut(graph, source, residual_graph)
FindMinCut ==
    /\ fpc = "returned"
    /\ removed_edges' = find_min_cut(graph, source, residual_graph)
    /\ fpc' = "cut"
    /\ UNCHANGED <<graph, source, sink, residual_graph, max_flow, parent, path_flow>>
    /\ UNCHANGED notFlow

FlowNext == AddRow \/ CallFordFulkerson \/ Augment \/ ReturnFlow \/ FindMinCut

SpecFlow == Init /\ [][FlowNext]_vars

SpecDijkstra == Init /\ [][DijkNext]_vars

\* --------------------------------------------- claims on dijkstra_all_paths
\* the simple paths of g that extend path p to end at t
RECURSIVE SimplePathsVia(_, _, _)
SimplePathsVia(g, p, t) ==
    IF p[Len(p)] = t THEN {p}
    ELSE UNION {SimplePathsVia(g, Append(p, n), t) :
                   n \in {k \in Nodes : <<p[Len(p)], k>> \in DOMAIN g /\ k \notin Range(p)}}

SimplePaths(g, s, t) == SimplePathsVia(g, <<s>>, t)

\* the cumulative weight of a path
PathWeight(g, p) ==
    LET w[i \in 1..Len(p)] == IF i = 1 THEN 0 ELSE w[i - 1] + g[<<p[i - 1], p[i]>>]
    IN w[Len(p)]

IsPath(g, p) == \A i \in 1..(Len(p) - 1) : <<p[i], p[i + 1]>> \in DOMAIN g

\* the least weight of a path from s to t, Inf when there is none (weights are
\* non-negative, so a simple path attains it)
MinDistance(g, s, t) ==
    LET ws == {PathWeight(g, p) : p \in SimplePaths(g, s, t)}
    IN IF ws = {} THEN Inf ELSE CHOOSE w \in ws : \A x \in ws : w <= x

\* C4: on return paths[t] holds every simple path from the source to t whose
\* weight is the minimum distance.
C4_AllCoOptimalPaths ==
    dpc = "returned" =>
        \A t \in Nodes : \A p \in SimplePaths(digraph, dsource, t) :
            PathWeight(digraph, p) = MinDistance(digraph, dsource, t)
                => p \in Range(paths[t])

\* C5: on return distances[source] = 0, distances[t] is the least weight of a
\* path to t (Inf when there is none), and every path of paths[t] runs from
\* the source to t along edges with weight distances[t].
C5_PathsAreShortest ==
    dpc = "returned" =>
        /\ distances[dsource] = 0
        /\ \A t \in Nodes :
              /\ distances[t] = MinDistance(digraph, dsource, t)
              /\ \A i \in 1..Len(paths[t]) :
                    LET p == paths[t][i]
                    IN /\ p[1] = dsource /\ p[Len(p)] = t
                       /\ IsPath(digraph, p)
                       /\ PathWeight(digraph, p) = distances[t]

\* a return where a node reached first over a heavier direct edge was improved
\* (its first heap entry went stale) and a node has two co-optimal paths
C5_Witness ==
    /\ dpc = "returned"
    /\ \E t \in Nodes : /\ <<dsource, t>> \in DOMAIN digraph
                        /\ digraph[<<dsource, t>>] > distances[t]
    /\ \E t \in Nodes : Len(paths[t]) >= 2
    /\ \E t \in Nodes : distances[t] = Inf

\* the paths the generator of the running extend has still to yield
ExtendRemaining(ps, ext) == Len(ps[ext[1]]) - ext[2] + 1

\* C14: dijkstra_all_paths terminates on every graph with non-negative weights,
\* zero-weight self-loops included, and no path list grows without bound:
\* every path that the tie branch's extend appends brings the extend nearer
\* to its end, leaving its generator fewer paths to yield.
C14_ExtendEnds ==
    [][(dpc = "extend" /\ paths' # paths) =>
          ExtendRemaining(paths', extending') < ExtendRemaining(paths, extending)]_vars

\* ------------------------------------------------ claims on find_best_route
\* the airports a route leads to from the airports of seen
RECURSIVE RouteReach(_, _)
RouteReach(g, seen) ==
    LET more == {r[2] : r \in {x \in g : x[1] \in seen}} \ seen
    IN IF more = {} THEN seen ELSE RouteReach(g, seen \cup more)

\* the least distance of a flight from a to b (there is one)
LegWeight(g, a, b) ==
    LET ws == {r[3] : r \in {x \in g : x[1] = a /\ x[2] = b}}
    IN CHOOSE w \in ws : \A x \in ws : w <= x

IsRoute(g, p) ==
    \A i \in 1..(Len(p) - 1) : \E r \in g : r[1] = p[i] /\ r[2] = p[i + 1]

RouteWeight(g, p) ==
    LET w[i \in 1..Len(p)] ==
            IF i = 1 THEN 0 ELSE w[i - 1] + LegWeight(g, p[i - 1], p[i])
    IN w[Len(p)]

\* the simple routes that extend p to end at t
RECURSIVE SimpleRoutesVia(_, _, _)
SimpleRoutesVia(g, p, t) ==
    IF p[Len(p)] = t THEN {p}
    ELSE UNION {SimpleRoutesVia(g, Append(p, n), t) :
                   n \in {r[2] : r \in {x \in g : x[1] = p[Len(p)]}} \ Range(p)}

\* C6: the inner dijkstra returns a route from start to target along flights
\* of the graph with the least cumulative distance, at the pop of the target,
\* and returns None ('No route found') exactly when target is unreachable.
C6_BestRoute ==
    /\ rpc = "path" =>
          /\ shortest_path # <<>> /\ route_found
          /\ shortest_path[1] = start
          /\ shortest_path[Len(shortest_path)] = target
          /\ IsRoute(routes, shortest_path)
          /\ \A p \in SimpleRoutesVia(routes, <<start>>, target) :
                RouteWeight(routes, shortest_path) <= RouteWeight(routes, p)
          /\ target \notin rvisited
    /\ rpc = "None" => (~route_found /\ target \notin RouteReach(routes, {start}))
    /\ rpc \in {"path", "None"} =>
          (rpc = "None" <=> target \notin RouteReach(routes, {start}))

\* a returned route of two legs that beats a direct flight of greater distance
C6_Witness ==
    /\ rpc = "path"
    /\ Len(shortest_path) = 3
    /\ \E r \in routes : r[1] = start /\ r[2] = target
                          /\ r[3] > RouteWeight(routes, shortest_path)

\* a call that found no route although flights leave the start
C6_WitnessNone ==
    rpc = "None" /\ start # target /\ (\E r \in routes : r[1] = start)

\* ------------------------------------------------------- claims on the flow
\* residual_graph[u][v], 0 when there is no such entry
Entry(g, u, v) == Get(Get(g, u, <<>>), v, 0)

\* the sum of the original capacities of a list of edges
CutCapacity(g, edges) ==
    LET c[i \in 0..Len(edges)] ==
            IF i = 0 THEN 0 ELSE c[i - 1] + Entry(g, edges[i][1], edges[i][2])
    IN c[Len(edges)]

\* the nodes a directed path leads to from s, over the edges of g not in cut
RECURSIVE ReachWithout(_, _, _)
ReachWithout(g, cut, seen) ==
    LET more == {r[2] : r \in {x \in RowsOf(g) :
                     x[1] \in seen /\ <<x[1], x[2]>> \notin cut}} \ seen
    IN IF more = {} THEN seen ELSE ReachWithout(g, cut, seen \cup more)

IsWorkedExample == RowsOf(graph) = ExampleRows

\* C1: when source and sink are distinct origins of the graph, the max_flow
\* ford_fulkerson returned equals the total original capacity of the edges
\* find_min_cut returned.
C1_FlowEqualsCut ==
    (fpc = "cut" /\ source \in KeySet(graph) /\ sink \in KeySet(graph))
        => max_flow = CutCapacity(graph, removed_edges)

\* a run airline_partitioning itself makes (source, sink = the first two
\* origins), with several units pushed and a cut of two edges or more
C1_Witness ==
    /\ fpc = "cut"
    /\ Len(graph) >= 2 /\ source = graph[1][1] /\ sink = graph[2][1]
    /\ max_flow >= 2
    /\ Len(removed_edges) >= 2
    /\ \E i \in 1..Len(removed_edges) :
          Entry(graph, removed_edges[i][1], removed_edges[i][2]) = 0

C3_ExampleFlowIsFour ==
    (IsWorkedExample /\ source = 1 /\ sink = 4 /\ fpc \in {"returned", "cut", "KeyError"})
        => (fpc \in {"returned", "cut"} /\ max_flow = 4)

\* the edges <<u, v>> of the augmenting path the parent map gives
PathEdges(par, src, snk) ==
    LET p == PathBack(par, snk, src)
    IN {<<p[i + 1], p[i]>> : i \in 1..(Len(p) - 1)}

NonNegative(res) ==
    \A i \in 1..Len(res) : \A j \in 1..Len(res[i][2]) : res[i][2][j][2] >= 0

\* C10 (first half): every residual capacity is >= 0 in every state.
C10_ResidualNonNegative == NonNegative(residual_graph)

\* C10: every entry of residual_graph is >= 0 in every state, and each
\* augmentation subtracts the bottleneck from every forward edge of its path
\* and adds it to the reverse edge.
C10_AugmentationSymmetric ==
    [][(fpc = "augment" /\ residual_graph' # residual_graph) =>
          /\ NonNegative(residual_graph')
          /\ \A e \in PathEdges(parent', source, sink) :
                /\ Entry(residual_graph', e[1], e[2])
                      = Entry(residual_graph, e[1], e[2]) - path_flow'
                /\ Entry(residual_graph', e[2], e[1])
                      = Entry(residual_graph, e[2], e[1]) + path_flow']_vars

\* the nodes one strictly positive residual edge away from the nodes of S
PositiveStep(res, S) ==
    {v \in AllAirports : \E u \in S : Entry(res, u, v) > 0}

\* the fewest edges of a path from the nodes of seen to t over strictly
\* positive residual edges, given that seen is hops away; Inf when there is none
RECURSIVE HopDistance(_, _, _, _)
HopDistance(res, seen, t, hops) ==
    IF t \in seen THEN hops
    ELSE LET more == PositiveStep(res, seen) \ seen
         IN IF more = {} THEN Inf ELSE HopDistance(res, seen \cup more, t, hops + 1)

\* C11: every augmenting path ford_fulkerson reconstructs from the parent map
\* after a successful bfs has the minimum number of edges among the source to
\* sink paths over strictly positive residual edges of the residual graph the
\* bfs ran on.
C11_AugmentingPathShortest ==
    [][(fpc = "augment" /\ residual_graph' # residual_graph) =>
          Len(PathBack(parent', sink, source)) - 1
              = HopDistance(residual_graph, {source}, sink, 0)]_vars

\* ------------------------------------ claims on edge_betweenness_centrality
NeighborSet(g, n) == Range(Neighbors(g, n))

\* every simple path from the last node of p to t, as a node sequence
RECURSIVE SimpleWalks(_, _, _)
SimpleWalks(g, p, t) ==
    IF p[Len(p)] = t THEN {p}
    ELSE UNION {SimpleWalks(g, Append(p, n), t) : n \in NeighborSet(g, p[Len(p)]) \ Range(p)}

\* the fewest-hop paths between s and t
ShortestWalks(g, s, t) ==
    LET all == SimpleWalks(g, <<s>>, t)
    IN {p \in all : \A q \in all : Len(p) <= Len(q)}

UsesEdge(p, e) ==
    \E i \in 1..(Len(p) - 1) : SortedPair(p[i], p[i + 1]) = e

\* the unordered pairs of distinct nodes
NodePairs(g) == {pr \in Range(g.nodes) \X Range(g.nodes) : pr[1] < pr[2]}

\* the fraction of the shortest paths of the pair that use e
PairFraction(g, pr, e) ==
    LET sp == ShortestWalks(g, pr[1], pr[2])
    IN IF sp = {} THEN <<0, 1>>
       ELSE Frac(Cardinality({p \in sp : UsesEdge(p, e)}), Cardinality(sp))

BruteForceScore(g, e) == FSum(NodePairs(g), [pr \in NodePairs(g) |-> PairFraction(g, pr, e)])

\* the hop distance of a connected pair, 0 for a pair that is not connected
PairDistance(g, pr) ==
    LET sp == ShortestWalks(g, pr[1], pr[2])
    IN IF sp = {} THEN <<0, 1>> ELSE <<Len(CHOOSE p \in sp : TRUE) - 1, 1>>

EdgeSet(g) == {SortedPair(n, x) : n \in Range(g.nodes), x \in Range(g.nodes)} \cap
              UNION {{SortedPair(n, x) : x \in NeighborSet(g, n)} : n \in Range(g.nodes)}

\* C8: for every undirected graph, connected or not, the dict returned by
\* edge_betweenness_centrality has one key per edge (its sorted node pair),
\* every score is non-negative and equals the sum over the unordered node
\* pairs of the fraction of fewest-hop paths through the edge, and the scores
\* add up to the sum of the hop distances of the connected pairs.
C8_ScoresMatchBruteForce ==
    gpc = "ebc" =>
        /\ DOMAIN ebc_scores = EdgeSet(ugraph)
        /\ \A e \in DOMAIN ebc_scores :
              /\ ebc_scores[e][1] >= 0
              /\ ebc_scores[e] = BruteForceScore(ugraph, e)
        /\ FSum(DOMAIN ebc_scores, ebc_scores)
             = FSum(NodePairs(ugraph), [pr \in NodePairs(ugraph) |-> PairDistance(ugraph, pr)])

\* scores were computed on a graph of four nodes in which some pair has two
\* fewest-hop paths
C8_Witness ==
    /\ gpc = "ebc"
    /\ Len(ugraph.nodes) = NumGNodes
    /\ \E pr \in NodePairs(ugraph) : Cardinality(ShortestWalks(ugraph, pr[1], pr[2])) = 2
    /\ \E e \in DOMAIN ebc_scores : ebc_scores[e][1] > ebc_scores[e][2]

\* ------------------------------------------------ claims on girvan_newman
TriangleEdges == {<<1, 2>>, <<2, 3>>, <<1, 3>>}

\* the graph is the triangle on the nodes 1, 2, 3
IsTriangle == Range(ugraph.nodes) = {1, 2, 3} /\ EdgeSet(ugraph) = TriangleEdges

\* girvan_newman was called on the triangle
StartedAsTriangle ==
    /\ Range(ugraph.nodes) = {1, 2, 3}
    /\ EdgeSet(ugraph) \cup Range(gn_removed) = TriangleEdges

AllScoresEqual ==
    /\ DOMAIN ebc_scores = TriangleEdges
    /\ \A e \in TriangleEdges : \A f \in TriangleEdges : ebc_scores[e] = ebc_scores[f]

\* the nodes of c reachable from the nodes of seen inside c
RECURSIVE ReachInside(_, _, _)
ReachInside(g, c, seen) ==
    LET more == (UNION {NeighborSet(g, n) : n \in seen} \cap c) \ seen
    IN IF more = {} THEN seen ELSE ReachInside(g, c, seen \cup more)

\* c is a connected subgraph of g
IsConnectedSubgraph(g, c) ==
    c # {} /\ \A n \in c : ReachInside(g, c, {n}) = c

TwoConnectedComponents ==
    /\ Len(sg) = 2
    /\ sg[1] \cup sg[2] = Range(ugraph.nodes)
    /\ sg[1] \cap sg[2] = {}
    /\ IsConnectedSubgraph(ugraph, sg[1])
    /\ IsConnectedSubgraph(ugraph, sg[2])

\* C7 as stated: on the triangle the three edges get equal scores, and
\* girvan_newman removes exactly one edge before it stops with 2 components,
\* each of them a connected subgraph.
C7_TriangleOneRemoval ==
    /\ (gpc = "ebc" /\ IsTriangle) => AllScoresEqual
    /\ (gpc = "returned" /\ StartedAsTriangle) =>
          (Len(gn_removed) = 1 /\ TwoConnectedComponents)

\* C7: on the triangle the three edges get equal scores, and girvan_newman
\* removes exactly two edges before it stops with 2 components, each of them
\* a connected subgraph (the triangle less one edge is still connected).
C7_TriangleTwoRemovals ==
    /\ (gpc = "ebc" /\ IsTriangle) => AllScoresEqual
    /\ (gpc = "loop" /\ StartedAsTriangle /\ Len(gn_removed) = 1) => AllScoresEqual
    /\ (gpc = "returned" /\ StartedAsTriangle) =>
          (Len(gn_removed) = 2 /\ TwoConnectedComponents)

C7_Witness ==
    /\ gpc = "returned"
    /\ StartedAsTriangle
    /\ Len(gn_removed) = 2
    /\ ebc_scores # <<>>

\* the component lists that split the nodes of g into non-empty disjoint sets
IsPartition(g, comps) ==
    /\ UNION Range(comps) = Range(g.nodes)
    /\ \A i \in 1..Len(comps) : comps[i] # {}
    /\ \A i \in 1..Len(comps) : \A j \in 1..Len(comps) :
          i # j => comps[i] \cap comps[j] = {}

\* girvan_newman was called on a connected graph of two nodes or more
CalledOnConnected ==
    /\ gpc \in {"loop", "returned", "ValueError"}
    /\ Len(ugraph.nodes) >= 2
    /\ \/ gn_removed # <<>>
       \/ gpc = "loop" /\ Len(sg) = 1

\* C13: on a connected undirected graph of two nodes or more girvan_newman
\* ends without error; each iteration removes one existing edge, of maximal
\* edge betweenness in the graph at that moment; it stops as soon as there is
\* more than one component and returns two non-empty disjoint node sets that
\* cover the nodes; a graph with more than one component is left untouched.
C13_GirvanNewmanSplits ==
    /\ (gpc = "loop" /\ CalledOnConnected) ~> (gpc = "returned")
    /\ [](CalledOnConnected => gpc # "ValueError")
    /\ [][(gpc = "loop" /\ ugraph' # ugraph) =>
            \E e \in EdgeSet(ugraph) :
                /\ gn_removed' = Append(gn_removed, e)
                /\ EdgeSet(ugraph') = EdgeSet(ugraph) \ {e}
                /\ ugraph'.nodes = ugraph.nodes
                /\ Len(sg) = 1
                /\ \A f \in EdgeSet(ugraph) :
                      ~FLess(BruteForceScore(ugraph, e), BruteForceScore(ugraph, f))]_vars
    /\ []((gpc = "returned" /\ CalledOnConnected) =>
            /\ Len(sg) = 2
            /\ IsPartition(ugraph, sg)
            /\ IsConnectedSubgraph(
                   AddEdgeTo(ugraph, gn_removed[Len(gn_removed)][1],
                             gn_removed[Len(gn_removed)][2]),
                   Range(ugraph.nodes)))
    /\ []((gpc = "returned" /\ gn_removed = <<>>) =>
            (Len(sg) # 1 /\ sg = connected_components(ugraph)))

\* a call on a connected graph of four nodes that returned after two
\* removals, with two components of two nodes
C13_Witness ==
    /\ gpc = "returned"
    /\ Len(ugraph.nodes) = NumGNodes
    /\ Len(gn_removed) = 2
    /\ Len(sg) = 2
    /\ Cardinality(sg[1]) = 2

\* ---------------------------------------------- claims on compute_pagerank
\* every node has an outgoing edge of positive weight
NoDanglingNodes == \A n \in PNodes : \E m \in Successors(pgraph, n) : EdgeWeight(pgraph, n, m) > 0

\* C9: in a graph where every node has an outgoing edge of positive weight
\* the scores of compute_pagerank sum to 1, at initialisation, after every
\* iteration, and when it returns by convergence or at the max_iterations
\* cap; no such call ends with ZeroDivisionError.
C9_ScoresSumToOne ==
    (NoDanglingNodes /\ ppc # "build") =>
        /\ ppc \in {"loop", "returned"}
        /\ FSum(PNodes, new_pagerank) = <<1, 1>>
        /\ FSum(PNodes, pagerank) = <<1, 1>>

\* a call that returned at the cap after MaxIter iterations with scores that
\* are no longer uniform
C9_Witness ==
    /\ NoDanglingNodes
    /\ ppc = "returned"
    /\ iteration = MaxIter
    /\ \E n \in PNodes : new_pagerank[n] # <<1, NumPNodes>>

\* a call that returned by convergence before the cap
C9_WitnessConverged ==
    /\ NoDanglingNodes
    /\ ppc = "returned"
    /\ iteration < max_iterations

\* ---------------------------------------------- claims on propagate_labels
\* C12: label propagation always settles: from initialize_labels, with
\* in-place sweeps in the order of graph.nodes() and the tie-break of
\* MostFrequent, propagate_labels comes to a full sweep that changes no label
\* and returns; the labels it returns are unchanged by one more sweep.
C12_LabelsSettle ==
    /\ (gpc = "sweep") ~> (gpc = "labelled")
    /\ [](gpc = "labelled" =>
            \A n \in Range(ugraph.nodes) :
                Neighbors(ugraph, n) # <<>> =>
                    labels[n] = MostFrequent(NeighborLabels(ugraph, labels, n)))

\* a call that returned on four nodes with labels that moved, two communities
C12_Witness ==
    /\ gpc = "labelled"
    /\ Len(ugraph.nodes) = NumGNodes
    /\ labels # initialize_labels(ugraph)
    /\ Cardinality(Range(labels)) = 2
    /\ \A n \in Range(ugraph.nodes) : Neighbors(ugraph, n) # <<>>

====
